---- MODULE Spec2Model ----
(***************************************************************************)
(* ClusterDocClient (x-pack/plugins/proxy/server/cluster_doc.ts): peers    *)
(* share one versioned document holding node heartbeats and a routing      *)
(* table.  Every async method is split at its awaits: the call (the        *)
(* synchronous prefix), the reply of the get (with the synchronous code    *)
(* that follows it up to the next await) and the index request (built      *)
(* from the fields as they are when it is sent, applied by the store and   *)
(* answered).                                                              *)
(***************************************************************************)
EXTENDS Integers, Sequences, FiniteSets, TLC

\* ------------------------------------------------------------------ bounds
MaxSeqNo == 3          \* writes the store accepts before the model stops writing
MaxTicks == 2          \* clock ticks
MaxCalls == 2          \* assignResource / unassignResource calls made in a run
MaxFaults == 1         \* store calls the environment lets fail in a run
TickMs == 16000        \* milliseconds per clock tick
RandDen == 4           \* Math.random() is k / RandDen, k in 0 .. RandDen - 1

\* ------------------------------------------------------- program constants
updateFloor == 30000
minUpdateShuffle == 0
maxUpdateShuffle == 1000
initialTimeoutThreshold == 15000
conflictStatus == 409
preconditionStatus == 412

Nodes == {"n1", "n2"}
\* the nodeName of an instance that ran before and is gone
Departed == "n0"
Resources == {"r1", "r2"}
\* the resources the owners of the instances ask for in the protocol specifications
ProtocolResources == {"r1"}
Undefined == "undefined"
AssignTypes == {"typeA"}
AssignStates == {"Started"}
AssignNodeArgs == {Undefined}

\* configurations the config stream emits
Configs == { [updateInterval |-> u, timeoutThreshold |-> t] :
               u \in {10000, 60000}, t \in {15000, 30000, 50000} }
Rands == 0 .. (RandDen - 1)
\* what the stream emits in the protocol specification (one setting, Math.random() = 0)
ProtocolConfigs == { [updateInterval |-> 10000, timeoutThreshold |-> 15000] }
ProtocolRands == {0}

\* errors a store call can reject with
NoError == [kind |-> "none", hasOutput |-> FALSE, statusCode |-> 0]
BoomConflict == [kind |-> "conflict", hasOutput |-> TRUE, statusCode |-> conflictStatus]
BoomNotReady == [kind |-> "notReady", hasOutput |-> TRUE, statusCode |-> preconditionStatus]
BoomUnavailable == [kind |-> "unavailable", hasOutput |-> TRUE, statusCode |-> 503]
PlainError == [kind |-> "plain", hasOutput |-> FALSE, statusCode |-> 0]
NotFoundError == [kind |-> "notFound", hasOutput |-> TRUE, statusCode |-> 404]
\* faults the environment may inject into a store call ("none": the store answers)
Faults == {NoError, BoomUnavailable, PlainError}

\* ------------------------------------------------------------ JS helpers
EmptyMap == [x \in {} |-> 0]
MapPut(f, k, v) == [x \in (DOMAIN f) \cup {k} |-> IF x = k THEN v ELSE f[x]]
MapDelete(f, k) == [x \in (DOMAIN f) \ {k} |-> f[x]]

\* an object with string keys is a sequence of entries in insertion order
Keys(table) == [i \in 1 .. Len(table) |-> table[i].key]
KeySet(table) == { table[i].key : i \in 1 .. Len(table) }
HasKey(table, k) == k \in KeySet(table)
Lookup(table, k) == table[CHOOSE i \in 1 .. Len(table) : table[i].key = k]
\* obj[k] = v: an existing key keeps its place, a new key goes last
ObjSet(table, e) ==
  IF HasKey(table, e.key)
  THEN [i \in 1 .. Len(table) |-> IF table[i].key = e.key THEN e ELSE table[i]]
  ELSE Append(table, e)
\* delete obj[k]
ObjDelete(table, k) == SelectSeq(table, LAMBDA e : e.key # k)
\* Array.prototype.findIndex, 0-based, -1 when absent
findIndex(arr, k) ==
  IF \E i \in 1 .. Len(arr) : arr[i] = k
  THEN (CHOOSE i \in 1 .. Len(arr) : arr[i] = k /\ \A j \in 1 .. (i - 1) : arr[j] # k) - 1
  ELSE -1
\* Array.prototype.splice(idx, 1): a negative idx counts from the end
splice1(arr, idx) ==
  LET start == IF idx < 0 THEN (IF Len(arr) + idx < 0 THEN 0 ELSE Len(arr) + idx) ELSE idx
  IN  IF start >= Len(arr) THEN arr
      ELSE [i \in 1 .. (Len(arr) - 1) |-> IF i <= start THEN arr[i] ELSE arr[i + 1]]

\* Math.floor(Math.random() * (min - max) + min) with Math.random() = k / RandDen
randomInt(min, max, k) == ((k * (min - max)) \div RandDen) + min

\* ------------------------------------------------------------------ state
VARIABLES
  phase,            \* lifecycle of each instance as its owner drives it
  elasticsearch,    \* this.elasticsearch is set
  subscribed,       \* this.configSubscription is set
  validState,       \* this.validState
  routingTable,     \* this.routingTable
  updateInterval,   \* this.updateInterval
  timeoutThreshold, \* this.timeoutThreshold
  timer,            \* this.timer holds a handle
  timerPending,     \* the timeout behind the handle has not fired and is not cleared
  seq_no,           \* this.seq_no
  primary_term,     \* this.primary_term
  loop,             \* the running mainLoop of each instance
  api,              \* the running assignResource / unassignResource / stop of each instance
  config,           \* the last configuration handed to setConfig
  doc,              \* the stored document: exists, nodes, routing_table, _seq_no, _primary_term
  holders,          \* per resource: the instances whose assign committed since it was last absent
  calls,            \* assignResource / unassignResource calls made so far
  faults,           \* store calls the environment let fail so far
  now               \* the wall clock, ms

vars == << phase, elasticsearch, subscribed, validState, routingTable, updateInterval,
           timeoutThreshold, timer, timerPending, seq_no, primary_term, loop, api,
           config, doc, holders, calls, faults, now >>

NoDoc == [nodes |-> EmptyMap, rt |-> << >>, seq |-> -1, time |-> -1]
IdleLoop == [pc |-> "idle", nodes |-> EmptyMap, read |-> NoDoc, last |-> "none"]
IdleApi == [op |-> "none", key |-> Undefined, type |-> Undefined, state |-> Undefined,
            node |-> Undefined, pc |-> "idle", nodes |-> EmptyMap,
            read |-> NoDoc, result |-> "none"]
NoConfig == [updateInterval |-> -1, timeoutThreshold |-> -1]

\* the document is absent, or was created empty by whoever provisioned the index,
\* or was left behind by an instance that is gone
LeftBehind == [key |-> "r1", type |-> "typeA", state |-> "Started", node |-> Departed]
InitDocs ==
  { [exists |-> e, nodes |-> EmptyMap, rt |-> << >>, seq_no |-> 0, primary_term |-> 1] :
      e \in BOOLEAN }
  \cup { [exists |-> TRUE, nodes |-> MapPut(EmptyMap, Departed, 0), rt |-> << LeftBehind >>,
          seq_no |-> 0, primary_term |-> 1] }

Init ==
  /\ phase = [n \in Nodes |-> "constructed"]
  /\ elasticsearch = [n \in Nodes |-> FALSE]
  /\ subscribed = [n \in Nodes |-> FALSE]
  /\ validState = [n \in Nodes |-> TRUE]
  /\ routingTable = [n \in Nodes |-> << >>]
  /\ updateInterval = [n \in Nodes |-> updateFloor]
  /\ timeoutThreshold = [n \in Nodes |-> initialTimeoutThreshold]
  /\ timer = [n \in Nodes |-> FALSE]
  /\ timerPending = [n \in Nodes |-> FALSE]
  /\ seq_no = [n \in Nodes |-> 0]
  /\ primary_term = [n \in Nodes |-> 0]
  /\ loop = [n \in Nodes |-> IdleLoop]
  /\ api = [n \in Nodes |-> IdleApi]
  /\ config = [n \in Nodes |-> NoConfig]
  /\ doc \in InitDocs
  /\ holders = [r \in Resources |-> IF HasKey(doc.rt, r) THEN {Lookup(doc.rt, r).node} ELSE {}]
  /\ calls = 0
  /\ faults = 0
  /\ now = 0

\* ------------------------------------------------------------- setConfig
\* the pair (updateInterval, timeoutThreshold) setConfig stores, for the two
\* values k1, k2 its two calls of Math.random() return
setConfig(cfg, k1, k2) ==
  LET shuffle == randomInt(minUpdateShuffle, maxUpdateShuffle, k1)
      update == IF cfg.updateInterval < updateFloor
                THEN shuffle + updateFloor
                ELSE shuffle + updateFloor
      timeout == IF cfg.timeoutThreshold < update
                 THEN update + randomInt(minUpdateShuffle, maxUpdateShuffle, k2)
                 ELSE cfg.timeoutThreshold
  IN  [updateInterval |-> update, timeoutThreshold |-> timeout]

\* setup(esClient): the store handle, the subscription, the first emission
setup(n, cfg, k1, k2) ==
  /\ phase[n] = "constructed"
  /\ phase' = [phase EXCEPT ![n] = "setup"]
  /\ elasticsearch' = [elasticsearch EXCEPT ![n] = TRUE]
  /\ subscribed' = [subscribed EXCEPT ![n] = TRUE]
  /\ updateInterval' = [updateInterval EXCEPT ![n] = setConfig(cfg, k1, k2).updateInterval]
  /\ timeoutThreshold' = [timeoutThreshold EXCEPT ![n] = setConfig(cfg, k1, k2).timeoutThreshold]
  /\ config' = [config EXCEPT ![n] = cfg]
  /\ UNCHANGED << validState, routingTable, timer, timerPending, seq_no, primary_term,
                  loop, api, doc, holders, now, faults, calls >>

\* a later emission of the config stream, delivered to the subscriber
configEmit(n, cfg, k1, k2) ==
  /\ subscribed[n]
  /\ updateInterval' = [updateInterval EXCEPT ![n] = setConfig(cfg, k1, k2).updateInterval]
  /\ timeoutThreshold' = [timeoutThreshold EXCEPT ![n] = setConfig(cfg, k1, k2).timeoutThreshold]
  /\ config' = [config EXCEPT ![n] = cfg]
  /\ UNCHANGED << phase, elasticsearch, subscribed, validState, routingTable, timer,
                  timerPending, seq_no, primary_term, loop, api, doc, holders, now, faults, calls >>

\* ---------------------------------------------------------------- setTimer
\* setTimer(): nothing when this.timer already holds a handle
setTimerArms(n) == ~timer[n]
setTimer(n) ==
  /\ timer' = [timer EXCEPT ![n] = TRUE]
  /\ timerPending' = [timerPending EXCEPT ![n] = IF setTimerArms(n) THEN TRUE ELSE @]

\* ------------------------------------------------------ updateRoutingTable
\* the first loop: every entry of the document is stored, and its key is
\* spliced out of currentRoutes when findIndex returns a truthy index
RECURSIVE updateEntries(_, _, _, _)
updateEntries(table, currentRoutes, entries, i) ==
  IF i > Len(entries) THEN [table |-> table, currentRoutes |-> currentRoutes]
  ELSE LET stored == ObjSet(table, entries[i])
           idx == findIndex(currentRoutes, entries[i].key)
           rest == IF idx # 0 THEN splice1(currentRoutes, idx) ELSE currentRoutes
       IN  updateEntries(stored, rest, entries, i + 1)

\* the second loop: what is left in currentRoutes is deleted
RECURSIVE deleteRoutes(_, _, _)
deleteRoutes(table, currentRoutes, i) ==
  IF i > Len(currentRoutes) THEN table
  ELSE deleteRoutes(ObjDelete(table, currentRoutes[i]), currentRoutes, i + 1)

updateRoutingTable(table, entries) ==
  LET r == updateEntries(table, Keys(table), entries, 1)
  IN  deleteRoutes(r.table, r.currentRoutes, 1)

\* ------------------------------------------------ getNodeList / updateNodeList
\* the environment lets a store call fail, within its budget
inject(fault) ==
  /\ fault # NoError => faults < MaxFaults
  /\ faults' = IF fault # NoError THEN faults + 1 ELSE faults

\* how the get of getNodeList ends for instance n under an injected fault
getError(n, fault) ==
  IF ~elasticsearch[n] THEN BoomNotReady
  ELSE IF fault # NoError THEN fault
  ELSE IF ~doc.exists THEN NotFoundError
  ELSE NoError

\* the document as a reply of get carries it
DocRead == [nodes |-> doc.nodes, rt |-> doc.rt, seq |-> doc.seq_no, time |-> now]

\* the store's conditional write: if_seq_no and if_primary_term must match
versionMatches(n) ==
  doc.exists /\ seq_no[n] = doc.seq_no /\ primary_term[n] = doc.primary_term

\* how the index request of updateNodeList ends for instance n
indexError(n, fault) ==
  IF ~elasticsearch[n] THEN BoomNotReady
  ELSE IF fault # NoError THEN fault
  ELSE IF ~versionMatches(n) THEN BoomConflict
  ELSE NoError

\* the document after the store accepted {nodes, routing_table: this.routingTable}
indexed(n, nodes) ==
  [doc EXCEPT !.nodes = nodes, !.rt = routingTable[n], !.seq_no = @ + 1]

\* the instances whose assign of a resource committed while the document kept an entry for it
holdersAfter(n, newRt, assigned) ==
  [r \in Resources |->
     IF ~HasKey(newRt, r) THEN {}
     ELSE IF r = assigned
          THEN (IF HasKey(doc.rt, r) THEN holders[r] \cup {n} ELSE {n})
          ELSE holders[r]]

updateLocalNode(nodes, n, finishTime) == MapPut(nodes, n, finishTime)

\* removeNode comparing the resource key, not data.node, with the node name
removeNodesByKey(table, gone) == SelectSeq(table, LAMBDA e : e.key \notin gone)
\* removeNode(node) for every node of a set
removeNodes(table, gone) == SelectSeq(table, LAMBDA e : e.node \notin gone)

\* ---------------------------------------------------------------- mainLoop
\* node.lastUpdate is older than this.timeoutThreshold
isExpired(n, lastUpdate, finishTime) == finishTime - lastUpdate > timeoutThreshold[n]

\* start(): the first cycle
start(n) ==
  /\ phase[n] = "setup"
  /\ loop[n].pc = "idle"
  /\ phase' = [phase EXCEPT ![n] = "started"]
  /\ loop' = [loop EXCEPT ![n].pc = "read"]
  /\ UNCHANGED << elasticsearch, subscribed, validState, routingTable, updateInterval,
                  timeoutThreshold, timer, timerPending, seq_no, primary_term, api,
                  config, doc, holders, now, faults, calls >>

\* the timeout set by setTimer fires: the next cycle
timerFires(n) ==
  /\ timerPending[n]
  /\ loop[n].pc = "idle"
  /\ timerPending' = [timerPending EXCEPT ![n] = FALSE]
  /\ loop' = [loop EXCEPT ![n].pc = "read"]
  /\ UNCHANGED << phase, elasticsearch, subscribed, validState, routingTable, updateInterval,
                  timeoutThreshold, timer, seq_no, primary_term, api, config, doc,
                  holders, now, faults, calls >>

\* the get of the cycle is answered; on success the cache is refreshed, the
\* expired nodes are dropped and the own heartbeat is set
mainLoopRead(n, fault) ==
  /\ loop[n].pc = "read"
  /\ IF getError(n, fault) # NoError
     THEN /\ validState' = [validState EXCEPT ![n] = FALSE]
          /\ setTimer(n)
          /\ loop' = [loop EXCEPT ![n] = [IdleLoop EXCEPT !.last = "readFailed"]]
          /\ UNCHANGED << routingTable, seq_no, primary_term >>
     ELSE LET finishTime == now
              gone == { m \in DOMAIN doc.nodes : isExpired(n, doc.nodes[m], finishTime) }
              kept == [m \in (DOMAIN doc.nodes) \ gone |-> doc.nodes[m]]
          IN  /\ validState' = [validState EXCEPT ![n] = TRUE]
              /\ seq_no' = [seq_no EXCEPT ![n] = doc.seq_no]
              /\ primary_term' = [primary_term EXCEPT ![n] = doc.primary_term]
              /\ routingTable' = [routingTable EXCEPT ![n] =
                                    removeNodes(updateRoutingTable(@, doc.rt), gone)]
              /\ loop' = [loop EXCEPT ![n] = [pc |-> "write",
                                              nodes |-> updateLocalNode(kept, n, finishTime),
                                              read |-> DocRead, last |-> @.last]]
              /\ UNCHANGED << timer, timerPending >>
  /\ inject(fault)
  /\ UNCHANGED << phase, elasticsearch, subscribed, updateInterval, timeoutThreshold, api,
                  config, doc, holders, now, calls >>

\* how the cycle ends for the error its write rejected with
writeOutcome(err) ==
  IF err = NoError THEN "ok"
  ELSE IF ~err.hasOutput THEN "threw"
  ELSE IF err.statusCode = conflictStatus THEN "conflict"
  ELSE "invalid"

\* the index request of the cycle is sent and answered; setTimer in finally
mainLoopWrite(n, fault) ==
  /\ loop[n].pc = "write"
  /\ doc.seq_no < MaxSeqNo
  /\ LET out == writeOutcome(indexError(n, fault))
     IN  /\ doc' = IF out = "ok" THEN indexed(n, loop[n].nodes) ELSE doc
         /\ holders' = IF out = "ok" THEN holdersAfter(n, routingTable[n], Undefined)
                       ELSE holders
         /\ validState' = [validState EXCEPT ![n] =
                             IF out = "ok" THEN TRUE
                             ELSE IF out = "invalid" THEN FALSE
                             ELSE @]
         /\ loop' = [loop EXCEPT ![n] = [IdleLoop EXCEPT !.last = out]]
  /\ setTimer(n)
  /\ inject(fault)
  /\ UNCHANGED << phase, elasticsearch, subscribed, routingTable, updateInterval,
                  timeoutThreshold, seq_no, primary_term, api, config, now, calls >>

\* ------------------------------------------- assignResource / unassignResource
\* the guard left out: a call goes on to its get whatever validState says
mayAssignAlways(n) == TRUE
\* the guard of assignResource and unassignResource
mayAssign(n) == validState[n]

\* the error a caller of assignResource, unassignResource or stop sees
thrown(err) ==
  IF err.kind = "conflict" THEN "VersionConflict"
  ELSE IF err.kind = "notReady" THEN "NotReady"
  ELSE "StoreUnavailable"

\* an index request of assignResource, unassignResource or stop is sent and answered
apiWrite(n, fault, assigned) ==
  /\ api[n].pc = "write"
  /\ doc.seq_no < MaxSeqNo
  /\ LET err == indexError(n, fault)
     IN  /\ doc' = IF err = NoError THEN indexed(n, api[n].nodes) ELSE doc
         /\ holders' = IF err = NoError THEN holdersAfter(n, routingTable[n], assigned)
                       ELSE holders
         /\ api' = [api EXCEPT ![n] = [@ EXCEPT !.pc = "idle", !.nodes = EmptyMap,
                                                !.read = NoDoc,
                                                !.result = IF err = NoError THEN "ok"
                                                           ELSE thrown(err)]]

\* assignResource(resource, type, state, node) up to its first await
assignResourceCall(n, resource, type, state, node) ==
  /\ phase[n] \in {"setup", "started"}
  /\ api[n].pc = "idle"
  /\ api' = [api EXCEPT ![n] =
       [IdleApi EXCEPT !.op = "assign", !.key = resource, !.type = type, !.state = state,
                       !.node = node,
                       !.pc = IF mayAssign(n) THEN "read" ELSE "idle",
                       !.result = IF mayAssign(n) THEN "pending"
                                  ELSE "InvalidCoordinatorState"]]
  /\ calls < MaxCalls
  /\ calls' = calls + 1
  /\ UNCHANGED << phase, elasticsearch, subscribed, validState, routingTable, updateInterval,
                  timeoutThreshold, timer, timerPending, seq_no, primary_term, loop,
                  config, doc, holders, now, faults >>

\* the entry assignResource stores: node || this.nodeName
assigned(n) ==
  [key |-> api[n].key, type |-> api[n].type, state |-> api[n].state,
   node |-> IF api[n].node = Undefined THEN n ELSE api[n].node]

\* the get of assignResource is answered: refresh, the check for an existing
\* entry, the new entry, the own heartbeat
assignResourceRead(n, fault) ==
  /\ api[n].op = "assign"
  /\ api[n].pc = "read"
  /\ IF getError(n, fault) # NoError
     THEN /\ api' = [api EXCEPT ![n] = [@ EXCEPT !.pc = "idle",
                                                 !.result = thrown(getError(n, fault))]]
          /\ UNCHANGED << routingTable, seq_no, primary_term >>
     ELSE LET fresh == updateRoutingTable(routingTable[n], doc.rt)
          IN  /\ seq_no' = [seq_no EXCEPT ![n] = doc.seq_no]
              /\ primary_term' = [primary_term EXCEPT ![n] = doc.primary_term]
              /\ IF HasKey(fresh, api[n].key)
                 THEN /\ routingTable' = [routingTable EXCEPT ![n] = fresh]
                      /\ api' = [api EXCEPT ![n] = [@ EXCEPT !.pc = "idle",
                                                             !.result = "AlreadyAssigned"]]
                 ELSE /\ routingTable' = [routingTable EXCEPT ![n] = ObjSet(fresh, assigned(n))]
                      /\ api' = [api EXCEPT ![n] =
                                   [@ EXCEPT !.pc = "write", !.read = DocRead,
                                             !.nodes = updateLocalNode(doc.nodes, n, now)]]
  /\ inject(fault)
  /\ UNCHANGED << phase, elasticsearch, subscribed, validState, updateInterval,
                  timeoutThreshold, timer, timerPending, loop, config, doc, holders, now, calls >>

assignResourceWrite(n, fault) ==
  /\ api[n].op = "assign"
  /\ apiWrite(n, fault, api[n].key)
  /\ inject(fault)
  /\ UNCHANGED << phase, elasticsearch, subscribed, validState, routingTable, updateInterval,
                  timeoutThreshold, timer, timerPending, seq_no, primary_term, loop,
                  config, now, calls >>

\* unassignResource(resource) up to its first await
unassignResourceCall(n, resource) ==
  /\ phase[n] \in {"setup", "started"}
  /\ api[n].pc = "idle"
  /\ api' = [api EXCEPT ![n] =
       [IdleApi EXCEPT !.op = "unassign", !.key = resource,
                       !.pc = IF mayAssign(n) THEN "read" ELSE "idle",
                       !.result = IF mayAssign(n) THEN "pending"
                                  ELSE "InvalidCoordinatorState"]]
  /\ calls < MaxCalls
  /\ calls' = calls + 1
  /\ UNCHANGED << phase, elasticsearch, subscribed, validState, routingTable, updateInterval,
                  timeoutThreshold, timer, timerPending, seq_no, primary_term, loop,
                  config, doc, holders, now, faults >>

\* the get of unassignResource is answered: refresh, delete, the own heartbeat
unassignResourceRead(n, fault) ==
  /\ api[n].op = "unassign"
  /\ api[n].pc = "read"
  /\ IF getError(n, fault) # NoError
     THEN /\ api' = [api EXCEPT ![n] = [@ EXCEPT !.pc = "idle",
                                                 !.result = thrown(getError(n, fault))]]
          /\ UNCHANGED << routingTable, seq_no, primary_term >>
     ELSE /\ seq_no' = [seq_no EXCEPT ![n] = doc.seq_no]
          /\ primary_term' = [primary_term EXCEPT ![n] = doc.primary_term]
          /\ routingTable' = [routingTable EXCEPT ![n] =
                                ObjDelete(updateRoutingTable(@, doc.rt), api[n].key)]
          /\ api' = [api EXCEPT ![n] =
                       [@ EXCEPT !.pc = "write", !.read = DocRead,
                                 !.nodes = updateLocalNode(doc.nodes, n, now)]]
  /\ inject(fault)
  /\ UNCHANGED << phase, elasticsearch, subscribed, validState, updateInterval,
                  timeoutThreshold, timer, timerPending, loop, config, doc, holders, now, calls >>

unassignResourceWrite(n, fault) ==
  /\ api[n].op = "unassign"
  /\ apiWrite(n, fault, Undefined)
  /\ inject(fault)
  /\ UNCHANGED << phase, elasticsearch, subscribed, validState, routingTable, updateInterval,
                  timeoutThreshold, timer, timerPending, seq_no, primary_term, loop,
                  config, now, calls >>

\* -------------------------------------------------------------------- stop
\* stop() up to its first await: clearTimeout when this.timer holds a handle
stopCall(n) ==
  /\ phase[n] \in {"setup", "started"}
  /\ api[n].pc = "idle"
  /\ phase' = [phase EXCEPT ![n] = "stopping"]
  /\ timerPending' = [timerPending EXCEPT ![n] = IF timer[n] THEN FALSE ELSE @]
  /\ api' = [api EXCEPT ![n] = [IdleApi EXCEPT !.op = "stop", !.pc = "read",
                                                !.result = "pending"]]
  /\ UNCHANGED << elasticsearch, subscribed, validState, routingTable, updateInterval,
                  timeoutThreshold, timer, seq_no, primary_term, loop, config, doc,
                  holders, now, faults, calls >>

\* the get of stop is answered: refresh, delete nodes[this.nodeName]
stopRead(n, fault) ==
  /\ api[n].op = "stop"
  /\ api[n].pc = "read"
  /\ IF getError(n, fault) # NoError
     THEN /\ api' = [api EXCEPT ![n] = [@ EXCEPT !.pc = "idle",
                                                 !.result = thrown(getError(n, fault))]]
          /\ phase' = [phase EXCEPT ![n] = "stopped"]
          /\ UNCHANGED << routingTable, seq_no, primary_term >>
     ELSE /\ seq_no' = [seq_no EXCEPT ![n] = doc.seq_no]
          /\ primary_term' = [primary_term EXCEPT ![n] = doc.primary_term]
          /\ routingTable' = [routingTable EXCEPT ![n] = updateRoutingTable(@, doc.rt)]
          /\ api' = [api EXCEPT ![n] = [@ EXCEPT !.pc = "write", !.read = DocRead,
                                                 !.nodes = MapDelete(doc.nodes, n)]]
          /\ UNCHANGED phase
  /\ inject(fault)
  /\ UNCHANGED << elasticsearch, subscribed, validState, updateInterval, timeoutThreshold,
                  timer, timerPending, loop, config, doc, holders, now, calls >>

\* the index request of stop is answered; the subscription is released after it
stopWrite(n, fault) ==
  /\ api[n].op = "stop"
  /\ apiWrite(n, fault, Undefined)
  /\ phase' = [phase EXCEPT ![n] = "stopped"]
  /\ subscribed' = [subscribed EXCEPT ![n] = IF indexError(n, fault) = NoError THEN FALSE ELSE @]
  /\ inject(fault)
  /\ UNCHANGED << elasticsearch, validState, routingTable, updateInterval, timeoutThreshold,
                  timer, timerPending, seq_no, primary_term, loop, config, now, calls >>

\* ------------------------------------------------------------------- clock
\* the clock is read only in the code that follows a get, so it advances while one is awaited
tick ==
  /\ now + TickMs <= MaxTicks * TickMs
  /\ \E n \in Nodes : loop[n].pc = "read" \/ api[n].pc = "read"
  /\ now' = now + TickMs
  /\ UNCHANGED << phase, elasticsearch, subscribed, validState, routingTable, updateInterval,
                  timeoutThreshold, timer, timerPending, seq_no, primary_term, loop, api,
                  config, doc, holders, faults, calls >>

\* ---------------------------------------------------------- specifications
\* one instance with everything its owner, its timer, the store and the clock can do
Instances == {"n1"}
Next ==
  \/ \E n \in Instances, cfg \in ProtocolConfigs, k1 \in ProtocolRands, k2 \in ProtocolRands :
       setup(n, cfg, k1, k2)
  \/ \E n \in Instances : start(n)
  \/ \E n \in Instances : timerFires(n)
  \/ \E n \in Instances, fault \in Faults : mainLoopRead(n, fault)
  \/ \E n \in Instances, fault \in Faults : mainLoopWrite(n, fault)
  \/ \E n \in Instances, r \in ProtocolResources, t \in AssignTypes, s \in AssignStates,
        o \in AssignNodeArgs : assignResourceCall(n, r, t, s, o)
  \/ \E n \in Instances, fault \in Faults : assignResourceRead(n, fault)
  \/ \E n \in Instances, fault \in Faults : assignResourceWrite(n, fault)
  \/ \E n \in Instances, r \in ProtocolResources : unassignResourceCall(n, r)
  \/ \E n \in Instances, fault \in Faults : unassignResourceRead(n, fault)
  \/ \E n \in Instances, fault \in Faults : unassignResourceWrite(n, fault)
  \/ \E n \in Instances : stopCall(n)
  \/ \E n \in Instances, fault \in Faults : stopRead(n, fault)
  \/ \E n \in Instances, fault \in Faults : stopWrite(n, fault)
  \/ tick

Spec == Init /\ [][Next]_vars

\* two instances on one document, the store answering every call
NextPeers ==
  \/ \E n \in Nodes, cfg \in ProtocolConfigs, k1 \in ProtocolRands, k2 \in ProtocolRands :
       setup(n, cfg, k1, k2)
  \/ \E n \in Nodes : start(n)
  \/ \E n \in Nodes : timerFires(n)
  \/ \E n \in Nodes : mainLoopRead(n, NoError)
  \/ \E n \in Nodes : mainLoopWrite(n, NoError)
  \/ \E n \in Nodes, r \in ProtocolResources, t \in AssignTypes, s \in AssignStates,
        o \in AssignNodeArgs : assignResourceCall(n, r, t, s, o)
  \/ \E n \in Nodes : assignResourceRead(n, NoError)
  \/ \E n \in Nodes : assignResourceWrite(n, NoError)
  \/ \E n \in Nodes, r \in ProtocolResources : unassignResourceCall(n, r)
  \/ \E n \in Nodes : unassignResourceRead(n, NoError)
  \/ \E n \in Nodes : unassignResourceWrite(n, NoError)

SpecPeers == Init /\ [][NextPeers]_vars

\* one instance whose owner makes one call after another, nobody else writing
Caller == "n1"
NextSeq ==
  \/ \E cfg \in ProtocolConfigs, k1 \in ProtocolRands, k2 \in ProtocolRands :
       setup(Caller, cfg, k1, k2)
  \/ \E r \in Resources, t \in AssignTypes, s \in AssignStates, o \in AssignNodeArgs :
       assignResourceCall(Caller, r, t, s, o)
  \/ assignResourceRead(Caller, NoError)
  \/ assignResourceWrite(Caller, NoError)
  \/ \E r \in Resources : unassignResourceCall(Caller, r)
  \/ unassignResourceRead(Caller, NoError)
  \/ unassignResourceWrite(Caller, NoError)
  \/ tick

SpecSeq == Init /\ [][NextSeq]_vars

\* the config stream alone: every setting, every value of Math.random()
NextConfig ==
  \/ \E n \in Instances, cfg \in Configs, k1 \in Rands, k2 \in Rands :
       setup(n, cfg, k1, k2)
  \/ \E n \in Instances, cfg \in Configs, k1 \in Rands, k2 \in Rands :
       configEmit(n, cfg, k1, k2)

SpecConfig == Init /\ [][NextConfig]_vars

\* an instance that runs its cycles beside one that assigns and then stops, the
\* store answering every call; a timeout that is pending fires and a request that
\* was sent is answered
Runner == "n1"
Leaver == "n2"
NextLeave ==
  \/ \E n \in Nodes, cfg \in ProtocolConfigs, k1 \in ProtocolRands, k2 \in ProtocolRands :
       setup(n, cfg, k1, k2)
  \/ start(Runner)
  \/ timerFires(Runner)
  \/ mainLoopRead(Runner, NoError)
  \/ mainLoopWrite(Runner, NoError)
  \/ \E r \in Resources, t \in AssignTypes, s \in AssignStates, o \in AssignNodeArgs :
       assignResourceCall(Leaver, r, t, s, o)
  \/ assignResourceRead(Leaver, NoError)
  \/ assignResourceWrite(Leaver, NoError)
  \/ stopCall(Leaver)
  \/ stopRead(Leaver, NoError)
  \/ stopWrite(Leaver, NoError)

SpecLeave ==
  /\ Init
  /\ [][NextLeave]_vars
  /\ WF_vars(timerFires(Runner))
  /\ WF_vars(mainLoopRead(Runner, NoError))
  /\ WF_vars(mainLoopWrite(Runner, NoError))
  /\ WF_vars(assignResourceRead(Leaver, NoError))
  /\ WF_vars(assignResourceWrite(Leaver, NoError))
  /\ WF_vars(stopRead(Leaver, NoError))
  /\ WF_vars(stopWrite(Leaver, NoError))

\* ------------------------------------------------------------------ claims
EntrySet(table) == { table[i] : i \in 1 .. Len(table) }
OwnedBy(table, m) == { e \in EntrySet(table) : e.node = m }

\* a call of assignResource / unassignResource by n ends in this step
Returns(n, op) == api[n].op = op /\ api[n].pc # "idle" /\ api'[n].pc = "idle"

\* C1: calls made one after another on one instance, nobody else writing and the
\* document being there, act on
\* the cache and on the stored routing table as on a reference map: an assign of
\* a free resource adds its entry and keeps every other entry, an assign of a
\* taken resource is refused and changes nothing, an unassign removes its entry
\* and keeps every other entry.
C1_Step ==
  LET n == Caller
      ref == EntrySet(doc.rt)
  IN  /\ doc.exists /\ Returns(n, "assign") /\ HasKey(doc.rt, api[n].key)
           => /\ api'[n].result = "AlreadyAssigned"
              /\ EntrySet(routingTable'[n]) = ref
              /\ EntrySet(doc'.rt) = ref
      /\ doc.exists /\ Returns(n, "assign") /\ ~HasKey(doc.rt, api[n].key)
           => /\ api'[n].result = "ok"
              /\ EntrySet(routingTable'[n]) = ref \cup {assigned(n)}
              /\ EntrySet(doc'.rt) = ref \cup {assigned(n)}
      /\ doc.exists /\ Returns(n, "unassign")
           => /\ api'[n].result = "ok"
              /\ EntrySet(routingTable'[n]) = { e \in ref : e.key # api[n].key }
              /\ EntrySet(doc'.rt) = { e \in ref : e.key # api[n].key }
C1_NoLostUpdates == [][C1_Step]_vars

\* C2: an assign whose refresh read an entry for its resource is refused with
\* AlreadyAssigned: it never goes on to its write, and the instance that was
\* refused holds the entry it read.
C2_AlreadyAssigned ==
  \A n \in Nodes :
    /\ (api[n].op = "assign" /\ api[n].pc = "write")
          => ~HasKey(api[n].read.rt, api[n].key)
    /\ (api[n].op = "assign" /\ api[n].pc = "idle" /\ api[n].result = "AlreadyAssigned"
          /\ loop[n].pc = "idle" /\ loop[n].last = "none")
          => HasKey(routingTable[n], api[n].key)

\* C3: of two instances that assign the same resource at most one succeeds while
\* the document keeps an entry for it, and the entry is owned by that one.
C3_OneWinner ==
  \A r \in Resources :
    /\ Cardinality(holders[r] \cap Nodes) <= 1
    /\ \A n \in Nodes : (holders[r] = {n} /\ HasKey(doc.rt, r)) => Lookup(doc.rt, r).node = n

\* C4: a started instance that is not being stopped has its next cycle scheduled
\* whenever a cycle has ended, however the cycle ended.
C4_Rescheduled ==
  \A n \in Nodes :
    (phase[n] = "started" /\ loop[n].pc = "idle" /\ loop[n].last # "none") => timerPending[n]

\* C5: the node map and the routing table a cycle whose get succeeded hands to its
\* write hold no other node whose heartbeat is older than timeoutThreshold and no
\* routing entry of such a node, and they keep every node that is not older
\* together with the entries the document held for it.  (The instance that runs
\* the cycle republishes itself: its own place in the node map is not asked for.)
C5_Step ==
  \A n \in Nodes :
    (loop[n].pc = "read" /\ loop'[n].pc = "write")
      => LET expired(m) == isExpired(n, doc.nodes[m], now)
         IN  \A m \in DOMAIN doc.nodes :
               IF expired(m)
               THEN /\ (m # n => m \notin DOMAIN loop'[n].nodes)
                    /\ OwnedBy(routingTable'[n], m) = {}
               ELSE /\ m \in DOMAIN loop'[n].nodes
                    /\ OwnedBy(doc.rt, m) \subseteq EntrySet(routingTable'[n])
C5_Eviction == [][C5_Step]_vars

\* C6: a cycle whose write was refused for its version leaves validState true,
\* raises nothing, and leaves the next cycle scheduled.
C6_ConflictBenign ==
  \A n \in Nodes :
    (phase[n] = "started" /\ loop[n].pc = "idle" /\ loop[n].last = "conflict")
      => (validState[n] /\ timerPending[n])

\* C7: a cycle whose get fails leaves validState false, a cycle whose get succeeds
\* leaves it true, and a call of assignResource or unassignResource made while it is
\* false is refused at once: cache, version and stored document stay as they were.
CallBegins(n) ==
  /\ calls' = calls + 1
  /\ api[n].pc = "idle"
  /\ api'[n] # api[n]
  /\ api'[n].op \in {"assign", "unassign"}
C7_Step ==
  \A n \in Nodes :
    /\ (loop[n].pc = "read" /\ loop'[n].pc = "idle") => ~validState'[n]
    /\ (loop[n].pc = "read" /\ loop'[n].pc = "write") => validState'[n]
    /\ (CallBegins(n) /\ ~validState[n])
         => /\ api'[n].pc = "idle"
            /\ api'[n].result = "InvalidCoordinatorState"
            /\ routingTable' = routingTable
            /\ seq_no' = seq_no /\ primary_term' = primary_term
            /\ doc' = doc
C7_InvalidRejects == [][C7_Step]_vars

\* a call was refused after a cycle's get failed, and a later get set validState again
C7_Witness ==
  \E n \in Nodes :
    /\ api[n].result = "InvalidCoordinatorState"
    /\ loop[n].pc = "write" /\ loop[n].last = "readFailed"
    /\ validState[n]

\* C8: once stop() has returned, the stored document holds no heartbeat of the
\* stopped instance.
C8_StoppedAbsent ==
  \A n \in Nodes :
    (api[n].op = "stop" /\ api[n].pc = "idle" /\ api[n].result = "ok")
      => n \notin DOMAIN doc.nodes

\* C9: after a config emission timeoutThreshold is greater than updateInterval.
C9_TimeoutAboveInterval ==
  \A n \in Nodes : config[n] # NoConfig => timeoutThreshold[n] > updateInterval[n]

\* C10: after a config emission updateInterval is max(configured, updateFloor)
\* plus a shuffle between minUpdateShuffle and maxUpdateShuffle.
C10_IntervalFloor ==
  \A n \in Nodes :
    config[n] # NoConfig
      => LET base == IF config[n].updateInterval > updateFloor
                     THEN config[n].updateInterval ELSE updateFloor
         IN  /\ updateInterval[n] >= base + minUpdateShuffle
             /\ updateInterval[n] <= base + maxUpdateShuffle

\* C11: an unassign of a resource the document holds no entry for succeeds and
\* changes no ownership: every entry the document held before the call is in the
\* cache and in the document after it, and of the node map only the heartbeat of
\* the caller changes.
C11_Step ==
  LET n == Caller
  IN  (doc.exists /\ Returns(n, "unassign") /\ ~HasKey(doc.rt, api[n].key))
        => /\ api'[n].result = "ok"
           /\ EntrySet(doc.rt) \subseteq EntrySet(routingTable'[n])
           /\ EntrySet(doc.rt) \subseteq EntrySet(doc'.rt)
           /\ \A m \in (DOMAIN doc.nodes) \ {n} :
                 m \in DOMAIN doc'.nodes /\ doc'.nodes[m] = doc.nodes[m]
C11_UnassignAbsent == [][C11_Step]_vars

\* C12: when the document does not exist, an instance that was set up and started
\* eventually has created it: the document exists, holds the heartbeat of the
\* instance, and the instance is valid.
C12_Created ==
  (phase[Runner] = "started" /\ ~doc.exists)
    ~> (doc.exists /\ Runner \in DOMAIN doc.nodes /\ validState[Runner])

\* C13: when the write of an assign, an unassign or a cycle fails, the cache is the
\* routing table of the most recent successful get: nothing the call inserted or
\* removed and did not persist is visible.  (Asked where the most recent get is
\* the call's own: of a call, on an instance that has run no cycle; of a cycle,
\* on an instance that has made no call.)
C13_Step ==
  \A n \in Nodes :
    /\ (api[n].op \in {"assign", "unassign"} /\ api[n].pc = "write" /\ api'[n].pc = "idle"
           /\ api'[n].result # "ok" /\ loop[n].pc = "idle" /\ loop[n].last = "none")
          => EntrySet(routingTable'[n]) = EntrySet(api[n].read.rt)
    /\ (loop[n].pc = "write" /\ loop'[n].pc = "idle" /\ loop'[n].last # "ok"
           /\ api[n].op = "none")
          => EntrySet(routingTable'[n]) = EntrySet(loop[n].read.rt)
C13_CacheIsLastRead == [][C13_Step]_vars

\* C14: when a get of the document has succeeded, the cache is the routing table
\* of the document just read, whatever it held before: as it is in stop and in a
\* refused assign, with the entry of the call added in an assign, without the
\* key of the call in an unassign, without the entries of expired nodes in a cycle.
C14_Step ==
  \A n \in Nodes :
    LET read == EntrySet(doc.rt)
        cache == EntrySet(routingTable'[n])
        answered == api[n].pc = "read" /\ api'[n].pc = "write"
    IN  /\ (api[n].op = "stop" /\ answered) => cache = read
        /\ (api[n].op = "assign" /\ api[n].pc = "read"
               /\ api'[n].result = "AlreadyAssigned") => cache = read
        /\ (api[n].op = "assign" /\ answered) => cache = read \cup {assigned(n)}
        /\ (api[n].op = "unassign" /\ answered)
              => cache = { e \in read : e.key # api[n].key }
        /\ (loop[n].pc = "read" /\ loop'[n].pc = "write")
              => cache = { e \in read :
                             e.node \in DOMAIN doc.nodes
                               => now - doc.nodes[e.node] <= timeoutThreshold[n] }
C14_FullReplace == [][C14_Step]_vars

\* C15: whenever a cycle, an assign, an unassign or a stop of an instance sends its
\* write, the version the write presents is the version of the get its node map
\* was derived from: no get of another operation of the instance came in between.
C15_Step ==
  \A n \in Nodes :
    /\ (loop[n].pc = "write" /\ loop'[n].pc = "idle") => seq_no[n] = loop[n].read.seq
    /\ (api[n].pc = "write" /\ api'[n].pc = "idle") => seq_no[n] = api[n].read.seq
C15_NoInterleaving == [][C15_Step]_vars

\* C16: a cycle whose write failed with anything but a version conflict has ended
\* without raising, has left validState false, and has the next cycle scheduled.
C16_WriteFailureInvalid ==
  \A n \in Nodes :
    (phase[n] = "started" /\ loop[n].pc = "idle" /\ loop[n].last \in {"invalid", "threw"})
      => /\ loop[n].last # "threw"
         /\ ~validState[n]
         /\ timerPending[n]

\* C17: a cycle whose get and write succeed and that read no expired node writes
\* the routing table it read, and the node map it read with its own heartbeat set
\* to the time of the cycle; in the first cycle and in every later one.  (Asked of
\* an instance that makes no call of its own meanwhile.)
C17_Step ==
  \A n \in Nodes :
    LET rd == loop[n].read
    IN  (loop[n].pc = "write" /\ loop'[n].pc = "idle" /\ loop'[n].last = "ok"
           /\ api[n].op = "none"
           /\ \A m \in DOMAIN rd.nodes : rd.time - rd.nodes[m] <= timeoutThreshold[n])
          => /\ EntrySet(doc'.rt) = EntrySet(rd.rt)
             /\ doc'.nodes = MapPut(rd.nodes, n, rd.time)
C17_CycleKeepsTable == [][C17_Step]_vars

\* C18: a cycle of a running instance removes the routing entries whose owner has
\* no heartbeat in the document: the routing table it hands to its write holds
\* only entries of nodes that are in the node map it hands to its write.
C18_Step ==
  \A n \in Nodes :
    (loop[n].pc = "read" /\ loop'[n].pc = "write")
      => \A e \in EntrySet(routingTable'[n]) : e.node \in DOMAIN loop'[n].nodes
C19_Step ==
  \A n \in Nodes :
    (loop[n].pc = "read" /\ loop'[n].pc = "write")
      => OwnedBy(updateRoutingTable(routingTable[n], doc.rt), n)
           \subseteq EntrySet(routingTable'[n])
C19_NoSelfEviction == [][C19_Step]_vars

\* C19 as amended: a cycle treats the node that runs it like every other node; when
\* the heartbeat it reads for itself is older than timeoutThreshold, no entry the
\* node owns is left in the cache when the cycle goes on to its write, and the
\* node map it hands to the write holds its heartbeat with the time of the cycle.
C19_SelfStep ==
  \A n \in Nodes :
    (loop[n].pc = "read" /\ loop'[n].pc = "write" /\ n \in DOMAIN doc.nodes
       /\ now - doc.nodes[n] > timeoutThreshold[n])
      => /\ OwnedBy(routingTable'[n], n) = {}
         /\ n \in DOMAIN loop'[n].nodes
         /\ loop'[n].nodes[n] = now
C19_SelfEvicted == [][C19_SelfStep]_vars

\* a cycle has read its own heartbeat as expired together with an entry it owns
C19_Witness ==
  \E n \in Nodes :
    /\ loop[n].pc = "write"
    /\ n \in DOMAIN loop[n].read.nodes
    /\ loop[n].read.time - loop[n].read.nodes[n] > timeoutThreshold[n]
    /\ OwnedBy(loop[n].read.rt, n) # {}
    /\ OwnedBy(routingTable[n], n) = {}

\* C20: on an instance whose stop() has been called no timeout is pending after
\* any step and no cycle starts, also when a cycle was awaiting its get or its
\* write when stop() was called; once stop() has returned no cycle of the
\* instance gets a write accepted.
C20_Step ==
  \A n \in Nodes :
    (phase[n] \in {"stopping", "stopped"})
      => /\ ~timerPending'[n]
         /\ ~(loop[n].pc = "idle" /\ loop'[n].pc = "read")
         /\ (phase[n] = "stopped")
               => ~(loop[n].pc = "write" /\ loop'[n].pc = "idle" /\ loop'[n].last = "ok")
C20_StoppedStaysStopped == [][C20_Step]_vars

====
